---- MODULE Spec2Model ----
(***************************************************************************)
(* Model of the template field pipeline of app.py (AV Brief Filler):       *)
(* label detection (LABEL_RE, extract_fields), key reconciliation          *)
(* (normalize_user_data_to_keys), value coercion (ensure_value), the model *)
(* call wrapper (call_model_to_get_json) and document assembly             *)
(* (assemble_markdown).                                                    *)
(*                                                                         *)
(* Text is modelled as a sequence of one-character strings, so that the    *)
(* regular expression, slugify, str.strip, str.rfind, str.join and         *)
(* difflib's ratio are computed character by character.                    *)
(***************************************************************************)
EXTENDS Integers, Sequences, FiniteSets, TLC

VARIABLES pc, template_lines, fields, user_data, normalized, resp, data, md

vars == <<pc, template_lines, fields, user_data, normalized, resp, data, md>>

(***************************************************************************)
(* Bounds of the explored inputs.                                          *)
(***************************************************************************)
MaxLines == 2
MaxEntries == 2

(***************************************************************************)
(* Characters.                                                             *)
(***************************************************************************)
Lower == <<"a","b","c","d","e","f","g","h","i","j","k","l","m",
           "n","o","p","q","r","s","t","u","v","w","x","y","z">>

Upper == <<"A","B","C","D","E","F","G","H","I","J","K","L","M",
           "N","O","P","Q","R","S","T","U","V","W","X","Y","Z">>

Digits == <<"0","1","2","3","4","5","6","7","8","9">>

Range(s) == {s[i] : i \in 1..Len(s)}

IndexOf(s, c) == CHOOSE i \in 1..Len(s) : s[i] = c

\* Python's str whitespace (re's whitespace class, str.strip) over the characters used
WS == {" ", "\t", "\n"}

SENTINEL == <<"S","i","n"," ","d","a","t","o","s">>

Min(a, b) == IF a < b THEN a ELSE b

Cat(seqs) ==
  LET RECURSIVE cat(_)
      cat(i) == IF i > Len(seqs) THEN <<>> ELSE seqs[i] \o cat(i + 1)
  IN cat(1)

(***************************************************************************)
(* str.strip / str.rstrip / str.rfind                                      *)
(***************************************************************************)
RECURSIVE LStrip(_)
LStrip(s) == IF s # <<>> /\ Head(s) \in WS THEN LStrip(Tail(s)) ELSE s

RECURSIVE RStrip(_)
RStrip(s) ==
  IF s # <<>> /\ s[Len(s)] \in WS THEN RStrip(SubSeq(s, 1, Len(s) - 1)) ELSE s

Strip(s) == RStrip(LStrip(s))

\* 0-based index of the last occurrence of c in s, -1 when there is none
RFind(s, c) ==
  IF \E i \in 1..Len(s) : s[i] = c
  THEN (CHOOSE i \in 1..Len(s) : s[i] = c /\ \A j \in (i+1)..Len(s) : s[j] # c) - 1
  ELSE -1

(***************************************************************************)
(* slugify(text, separator="_") of python-slugify: transliterate and       *)
(* lowercase, replace each run of characters outside [-a-z0-9] by "-",     *)
(* collapse runs of "-", strip "-", then replace "-" by the separator.     *)
(* The characters used here are ASCII, so transliteration is lowercasing.  *)
(***************************************************************************)
Translit(c) ==
  IF c \in Range(Lower) \cup Range(Digits) THEN c
  ELSE IF c \in Range(Upper) THEN Lower[IndexOf(Upper, c)]
  ELSE "-"

RECURSIVE CollapseDash(_)
CollapseDash(s) ==
  IF Len(s) < 2 THEN s
  ELSE IF s[1] = "-" /\ s[2] = "-" THEN CollapseDash(Tail(s))
  ELSE <<s[1]>> \o CollapseDash(Tail(s))

RECURSIVE StripDash(_)
StripDash(s) ==
  IF s # <<>> /\ Head(s) = "-" THEN StripDash(Tail(s))
  ELSE IF s # <<>> /\ s[Len(s)] = "-" THEN StripDash(SubSeq(s, 1, Len(s) - 1))
  ELSE s

slugify(text) ==
  LET t == [i \in 1..Len(text) |-> Translit(text[i])]
      d == StripDash(CollapseDash(t))
  IN [i \in 1..Len(d) |-> IF d[i] = "-" THEN "_" ELSE d[i]]

(***************************************************************************)
(* LABEL_RE, matched the way re.match backtracks: group 1 is greedy        *)
(* leading whitespace and an optional bullet or ordinal with its spaces,   *)
(* then an optional bold marker, group 2 (a lazy, non-empty body without   *)
(* colon or asterisk), an optional bold marker, and a colon surrounded by  *)
(* whitespace that ends the line.                                          *)
(* Positions are 1-based indexes of the next character to read.  A result  *)
(* is <<first, last>> of group 2, or <<>> when there is no match.          *)
(***************************************************************************)
BulletChars == {"-", "*", "+"}

RECURSIVE WsRun(_, _)
WsRun(s, i) == IF i <= Len(s) /\ s[i] \in WS THEN 1 + WsRun(s, i + 1) ELSE 0

RECURSIVE DigitRun(_, _)
DigitRun(s, i) ==
  IF i <= Len(s) /\ s[i] \in Range(Digits) THEN 1 + DigitRun(s, i + 1) ELSE 0

IsBold(s, i) == i + 1 <= Len(s) /\ s[i] = "*" /\ s[i + 1] = "*"

\* whitespace, colon, whitespace, end of line, from position i
ColonTail(s, i) ==
  \E c \in i..Len(s) :
    /\ s[c] = ":"
    /\ \A j \in i..(c - 1) : s[j] \in WS
    /\ \A j \in (c + 1)..Len(s) : s[j] \in WS

\* optional closing bold marker and the colon tail, from position i
AfterLabel(s, i) == (IsBold(s, i) /\ ColonTail(s, i + 2)) \/ ColonTail(s, i)

\* group 2 from position q: the shortest body the rest can follow, 0 if none
LabelEnd(s, q) ==
  LET ok == {e \in q..Len(s) :
               /\ \A j \in q..e : s[j] \notin {":", "*"}
               /\ AfterLabel(s, e + 1)}
  IN IF ok = {} THEN 0 ELSE CHOOSE e \in ok : \A f \in ok : e <= f

\* variant: the opening bold marker is not recognised
LabelAtNoBold(s, p) ==
  IF LabelEnd(s, p) # 0 THEN <<p, LabelEnd(s, p)>> ELSE <<>>

\* optional opening bold marker and group 2 from position p; the marker is tried first
LabelAt(s, p) ==
  IF IsBold(s, p) /\ LabelEnd(s, p + 2) # 0 THEN <<p + 2, LabelEnd(s, p + 2)>>
  ELSE IF LabelEnd(s, p) # 0 THEN <<p, LabelEnd(s, p)>>
  ELSE <<>>

\* greedy spaces after a bullet, starting at position from, k characters to give back
RECURSIVE TrySpaces(_, _, _)
TrySpaces(s, from, k) ==
  IF k < 1 THEN <<>>
  ELSE LET r == LabelAt(s, from + k)
       IN IF r # <<>> THEN r ELSE TrySpaces(s, from, k - 1)

\* ordinal prefix (digits, dot, spaces) at position from, with d digits taken
RECURSIVE TryDigits(_, _, _)
TryDigits(s, from, d) ==
  IF d < 1 THEN <<>>
  ELSE LET r == IF from + d <= Len(s) /\ s[from + d] = "."
                THEN TrySpaces(s, from + d + 1, WsRun(s, from + d + 1))
                ELSE <<>>
       IN IF r # <<>> THEN r ELSE TryDigits(s, from, d - 1)

\* optional bullet or ordinal after w leading whitespace characters
TryBullet(s, w) ==
  LET r1 == IF w + 1 <= Len(s) /\ s[w + 1] \in BulletChars
            THEN TrySpaces(s, w + 2, WsRun(s, w + 2))
            ELSE <<>>
      r2 == TryDigits(s, w + 1, DigitRun(s, w + 1))
  IN IF r1 # <<>> THEN r1
     ELSE IF r2 # <<>> THEN r2
     ELSE LabelAt(s, w + 1)

\* greedy leading whitespace at the start of the line
RECURSIVE TryWs(_, _)
TryWs(s, w) ==
  IF w < 0 THEN <<>>
  ELSE LET r == TryBullet(s, w)
       IN IF r # <<>> THEN r ELSE TryWs(s, w - 1)

LABEL_RE(ln) == TryWs(ln, WsRun(ln, 1))

(***************************************************************************)
(* read_template: text.splitlines().  Of the line boundaries Python knows, *)
(* the characters used here contain only the newline.                      *)
(***************************************************************************)
RECURSIVE splitlines(_)
splitlines(text) ==
  IF text = <<>> THEN <<>>
  ELSE IF \E i \in 1..Len(text) : text[i] = "\n"
  THEN LET i == CHOOSE i \in 1..Len(text) :
                  text[i] = "\n" /\ \A j \in 1..(i - 1) : text[j] # "\n"
       IN <<SubSeq(text, 1, i - 1)>> \o splitlines(SubSeq(text, i + 1, Len(text)))
  ELSE <<text>>

read_template(text) == splitlines(text)

(***************************************************************************)
(* extract_fields                                                          *)
(***************************************************************************)
RECURSIVE ExtractFrom(_, _)
ExtractFrom(lines, i) ==
  IF i > Len(lines) THEN <<>>
  ELSE LET m   == LABEL_RE(lines[i])
           raw == Strip(SubSeq(lines[i], m[1], m[2]))
       IN (IF m # <<>>
           THEN <<[line_idx |-> i - 1, raw_label |-> raw, key |-> slugify(raw)]>>
           ELSE <<>>) \o ExtractFrom(lines, i + 1)

extract_fields(lines) == ExtractFrom(lines, 1)

KeysList(fs) == [i \in 1..Len(fs) |-> fs[i].key]

(***************************************************************************)
(* Values: None, a string, an integer, or a list of integers.              *)
(***************************************************************************)
None == [t |-> "none"]

Str(s) == [t |-> "str", s |-> s]

Int_(n) == [t |-> "int", n |-> n]

List(items) == [t |-> "list", items |-> items]

RECURSIVE IntStr(_)
IntStr(n) == IF n < 10 THEN <<Digits[n + 1]>>
             ELSE IntStr(n \div 10) \o <<Digits[(n % 10) + 1]>>

\* json.dumps of a list of integers: "[1, 2]"
RECURSIVE JoinInts(_, _)
JoinInts(items, i) ==
  IF i > Len(items) THEN <<>>
  ELSE (IF i > 1 THEN <<",", " ">> ELSE <<>>) \o IntStr(items[i])
       \o JoinInts(items, i + 1)

JsonDumps(v) == <<"[">> \o JoinInts(v.items, 1) \o <<"]">>

ensure_value(v) ==
  IF v.t = "none" THEN SENTINEL
  ELSE LET text == IF v.t = "list" THEN JsonDumps(v)
                   ELSE IF v.t = "int" THEN IntStr(v.n)
                   ELSE v.s
           st == Strip(text)
       IN IF st # <<>> THEN st ELSE SENTINEL

(***************************************************************************)
(* assemble_markdown.  A mapping (dict) is a function from keys to values. *)
(***************************************************************************)
EmptyDict == [k \in {} |-> None]

DictGet(d, k, default) == IF k \in DOMAIN d THEN d[k] ELSE default

\* d[k] = v, which adds k when d does not have it
DictSet(d, k, v) == [x \in DOMAIN d \cup {k} |-> IF x = k THEN v ELSE d[x]]

\* variant: the value is appended without the separating space
RewriteLineNoSpace(line, val) ==
  LET idx == RFind(line, ":")
  IN IF idx = -1 THEN RStrip(line) \o val
     ELSE SubSeq(line, 1, idx + 1) \o val

RewriteLine(line, val) ==
  LET idx == RFind(line, ":")
  IN IF idx = -1 THEN RStrip(line) \o <<" ">> \o val
     ELSE SubSeq(line, 1, idx + 1) \o <<" ">> \o val

RECURSIVE RewriteAll(_, _, _, _)
RewriteAll(out, fs, d, n) ==
  IF n > Len(fs) THEN out
  ELSE LET f   == fs[n]
           val == ensure_value(DictGet(d, f.key, Str(<<>>)))
       IN RewriteAll([out EXCEPT ![f.line_idx + 1] = RewriteLine(@, val)],
                     fs, d, n + 1)

RECURSIVE JoinLines(_, _)
JoinLines(lines, i) ==
  IF i > Len(lines) THEN <<>>
  ELSE (IF i > 1 THEN <<"\n">> ELSE <<>>) \o lines[i] \o JoinLines(lines, i + 1)

\* variant: the final newline is not appended
AssembleNoFinalNewline(lines, fs, d) ==
  JoinLines(RewriteAll(lines, fs, d, 1), 1)

assemble_markdown(lines, fs, d) ==
  JoinLines(RewriteAll(lines, fs, d, 1), 1) \o <<"\n">>

(***************************************************************************)
(* difflib.SequenceMatcher(None, a, b) on sequences shorter than 200       *)
(* elements (no junk, no popular elements).  Indexes are 0-based and       *)
(* ranges half-open as in the library.                                     *)
(***************************************************************************)
\* find_longest_match: the longest common block, the earliest in a, then in b
find_longest_match(a, b, alo, ahi, blo, bhi) ==
  LET blocks == {m \in (alo..(ahi - 1)) \X (blo..(bhi - 1)) \X (1..(ahi - alo)) :
                   /\ m[1] + m[3] <= ahi
                   /\ m[2] + m[3] <= bhi
                   /\ \A d \in 1..m[3] : a[m[1] + d] = b[m[2] + d]}
      Better(m, n) == \/ m[3] > n[3]
                      \/ m[3] = n[3] /\ m[1] < n[1]
                      \/ m[3] = n[3] /\ m[1] = n[1] /\ m[2] <= n[2]
  IN IF blocks = {} THEN <<alo, blo, 0>>
     ELSE CHOOSE m \in blocks : \A n \in blocks : Better(m, n)

\* get_matching_blocks: total size of the blocks found left and right of the longest
RECURSIVE MatchCount(_, _, _, _, _, _)
MatchCount(a, b, alo, ahi, blo, bhi) ==
  LET m == find_longest_match(a, b, alo, ahi, blo, bhi)
      i == m[1]
      j == m[2]
      k == m[3]
  IN IF k = 0 THEN 0
     ELSE k + (IF alo < i /\ blo < j THEN MatchCount(a, b, alo, i, blo, j) ELSE 0)
            + (IF i + k < ahi /\ j + k < bhi
               THEN MatchCount(a, b, i + k, ahi, j + k, bhi) ELSE 0)

\* _calculate_ratio: 2.0 * matches / length as the fraction <<num, den>>; 1.0 if length is 0
calculate_ratio(matches, length) ==
  IF length = 0 THEN <<1, 1>> ELSE <<2 * matches, length>>

ratio(a, b) == calculate_ratio(MatchCount(a, b, 0, Len(a), 0, Len(b)), Len(a) + Len(b))

Count(s, c) == Cardinality({i \in 1..Len(s) : s[i] = c})

\* quick_ratio: size of the multiset intersection of the elements
quick_ratio(a, b) ==
  LET chars == Range(a) \cap Range(b)
      RECURSIVE Sum(_)
      Sum(S) == IF S = {} THEN 0
                ELSE LET c == CHOOSE x \in S : TRUE
                     IN Min(Count(a, c), Count(b, c)) + Sum(S \ {c})
  IN calculate_ratio(Sum(chars), Len(a) + Len(b))

real_quick_ratio(a, b) == calculate_ratio(Min(Len(a), Len(b)), Len(a) + Len(b))

\* variant: the cutoff itself is excluded
AboveCutoff(r) == 10 * r[1] > 8 * r[2]

\* r >= 0.8 for a fraction r (the division is correctly rounded, and so is 0.8)
AtLeastCutoff(r) == 10 * r[1] >= 8 * r[2]

RatioLess(r, q) == r[1] * q[2] < q[1] * r[2]

RatioEq(r, q) == r[1] * q[2] = q[1] * r[2]

\* Code point order of the characters a slug is made of
CodeOrder == Digits \o <<"_">> \o Lower

CodePoint(c) == IndexOf(CodeOrder, c)

\* x < y for Python strings
RECURSIVE StrLess(_, _)
StrLess(x, y) ==
  IF y = <<>> THEN FALSE
  ELSE IF x = <<>> THEN TRUE
  ELSE IF Head(x) = Head(y) THEN StrLess(Tail(x), Tail(y))
  ELSE CodePoint(Head(x)) < CodePoint(Head(y))

\* (score, x) < (score', x') for the tuples heapq.nlargest compares
ScoredLess(p, q) ==
  RatioLess(p[1], q[1]) \/ (RatioEq(p[1], q[1]) /\ StrLess(p[2], q[2]))

\* difflib.get_close_matches(word, possibilities, n=1, cutoff=0.8):
\* <<best>> or <<>>.  The sequence matcher has seq1 = x and seq2 = word.
get_close_matches(word, possibilities) ==
  LET result == {<<ratio(possibilities[i], word), possibilities[i]>> :
                   i \in {n \in 1..Len(possibilities) :
                            /\ AtLeastCutoff(real_quick_ratio(possibilities[n], word))
                            /\ AtLeastCutoff(quick_ratio(possibilities[n], word))
                            /\ AtLeastCutoff(ratio(possibilities[n], word))}}
  IN IF result = {} THEN <<>>
     ELSE <<(CHOOSE p \in result : \A q \in result : q = p \/ ScoredLess(q, p))[2]>>

(***************************************************************************)
(* normalize_user_data_to_keys.  The caller's mapping is None or a dict    *)
(* whose items are a sequence of <<key, value>> in insertion order.        *)
(***************************************************************************)
Dict(items) == [t |-> "dict", items |-> items]

\* user_data or {}
Items(ud) == IF ud.t = "none" THEN <<>> ELSE ud.items

\* keys of norm_expected, in insertion order
RECURSIVE NormExpectedKeys(_, _)
NormExpectedKeys(expected_keys, n) ==
  IF n = 0 THEN <<>>
  ELSE LET before == NormExpectedKeys(expected_keys, n - 1)
           sl     == slugify(expected_keys[n])
       IN IF sl \in Range(before) THEN before ELSE Append(before, sl)

\* norm_expected[sl]: the last expected key that slugs to sl
NormExpectedAt(expected_keys, sl) ==
  LET is == {i \in 1..Len(expected_keys) : slugify(expected_keys[i]) = sl}
  IN expected_keys[CHOOSE i \in is : \A j \in is : j <= i]

\* variant: an input that matches nothing is kept under its own slug
NormalizeItemAddingKey(out, expected_keys, item) ==
  LET slug_in == slugify(item[1])
      nkeys   == NormExpectedKeys(expected_keys, Len(expected_keys))
      best    == get_close_matches(slug_in, nkeys)
  IN IF slug_in \in Range(nkeys)
     THEN DictSet(out, NormExpectedAt(expected_keys, slug_in), item[2])
     ELSE IF best # <<>>
     THEN DictSet(out, NormExpectedAt(expected_keys, best[1]), item[2])
     ELSE DictSet(out, slug_in, item[2])

NormalizeItem(out, expected_keys, item) ==
  LET slug_in == slugify(item[1])
      nkeys   == NormExpectedKeys(expected_keys, Len(expected_keys))
      best    == get_close_matches(slug_in, nkeys)
  IN IF slug_in \in Range(nkeys)
     THEN DictSet(out, NormExpectedAt(expected_keys, slug_in), item[2])
     ELSE IF best # <<>>
     THEN DictSet(out, NormExpectedAt(expected_keys, best[1]), item[2])
     ELSE out

RECURSIVE NormalizeFrom(_, _, _, _)
NormalizeFrom(out, expected_keys, items, n) ==
  IF n > Len(items) THEN out
  ELSE NormalizeFrom(NormalizeItem(out, expected_keys, items[n]),
                     expected_keys, items, n + 1)

normalize_user_data_to_keys(ud, expected_keys) ==
  NormalizeFrom([k \in Range(expected_keys) |-> Str(SENTINEL)],
                expected_keys, Items(ud), 1)

(***************************************************************************)
(* call_model_to_get_json.  The outcome of the model call is one of:       *)
(* the client raises; the content is empty or None; the content is not     *)
(* JSON; the content is JSON but not an object; the content is an object.  *)
(***************************************************************************)
\* variant: the parsed object is returned without restricting it to the keys
CallModelUnsanitized(fs, outcome) ==
  IF outcome.kind = "object"
  THEN [k \in DOMAIN outcome.d |-> Str(ensure_value(outcome.d[k]))]
  ELSE [k \in Range(KeysList(fs)) |-> Str(SENTINEL)]

call_model_to_get_json(fs, outcome) ==
  LET keys_list == KeysList(fs)
      parsed    == IF outcome.kind = "object" THEN outcome.d ELSE EmptyDict
  IN IF outcome.kind \in {"raise", "nonobject"}
     THEN [k \in Range(keys_list) |-> Str(SENTINEL)]
     ELSE [k \in Range(keys_list) |->
             Str(ensure_value(DictGet(parsed, k, Str(SENTINEL))))]

(***************************************************************************)
(* Inputs: template lines, caller mappings and model outcomes.             *)
(***************************************************************************)
SeqsUpTo(S, n) == UNION {[1..k -> S] : k \in 0..n}

LineSitioWeb == <<"S","i","t","i","o"," ","w","e","b",":">>

LineBoldThenColon == <<"-"," ","*","*","C","l","i","e","n","t","e","/","M","a","r","c","a","*","*",":">>

LineColonInBold == <<"-"," ","*","*","C","l","i","e","n","t","e","/","M","a","r","c","a",":","*","*">>

LineBlankLabel == <<" "," ",":">>

LineBulletOnly == <<"-"," ",":">>

LineHeading == <<"#"," ","B">>

LineTrailing == <<"a",":"," ","b">>

TextLines == {<<>>, LineHeading, LineTrailing, LineSitioWeb, LineBoldThenColon,
              LineColonInBold, LineBlankLabel, LineBulletOnly}

KeyLines == {<<"a","b",":">>, <<"a","b","c",":">>, <<"*"," ","a","b","d"," ",":">>}

KeyClienteMarca == <<"C","l","i","e","n","t","e"," ","/"," ","M","a","r","c","a">>

KeySitioWeb == <<"s","i","t","i","o","-","w","e","b">>

Acme == <<"A","c","m","e">>

CallerKeys == {<<"a","b">>, <<"A","B"," ">>, <<"a","b","c">>, <<"a","b","c","d">>, <<"a">>, <<"z","z">>}

CallerValues == {Str(<<"x">>), Str(<<"y">>)}

TextKeys == {KeyClienteMarca, KeySitioWeb}

TextValues == {Str(Acme), Str(<<" ","x"," ">>), None, Int_(42), List(<<1, 2>>)}

DistinctKeys(items) ==
  \A i, j \in 1..Len(items) : i # j => items[i][1] # items[j][1]

\* caller mappings that exercise reconciliation
KeyUserData ==
  {None} \cup {Dict(it) : it \in {x \in SeqsUpTo(CallerKeys \X CallerValues, MaxEntries) :
                                    DistinctKeys(x)}}

\* caller mappings that exercise value coercion
TextUserData ==
  {None} \cup {Dict(it) : it \in SeqsUpTo(TextKeys \X TextValues, 1)}

\* caller mappings of the requests that go through the model
FillUserData == {None, Dict(<<>>), Dict(<<<<KeyClienteMarca, Str(Acme)>>>>)}

\* the template file: its lines, each ended by a newline
TemplateText(lines) ==
  Cat([i \in 1..Len(lines) |-> lines[i] \o <<"\n">>])

TemplateTexts(lineset) == {TemplateText(lines) : lines \in SeqsUpTo(lineset, MaxLines)}

ExtraKey == <<"e","x","t","r","a">>

ModelValues == {Str(<<"x">>), Str(<<" ","x","\n","y">>), Str(<<" ">>), None}

\* what the model call can do, for the keys it was asked
ModelOutcomes(keys) ==
  {[kind |-> k] : k \in {"raise", "empty", "notjson", "nonobject"}}
  \cup {[kind |-> "object", d |-> f] :
          f \in UNION {[S -> ModelValues] : S \in SUBSET (keys \cup {ExtraKey})}}

(***************************************************************************)
(* The state machine: one request, from the template and the caller's      *)
(* mapping to the assembled document.                                      *)
(***************************************************************************)
NoResponse == [kind |-> "none"]

\* the state once the template is read and the caller's mapping ingested
InitWith(text, ud) ==
  /\ pc = "start"
  /\ template_lines = read_template(text)
  /\ user_data = ud
  /\ fields = <<>>
  /\ normalized = EmptyDict
  /\ resp = NoResponse
  /\ data = EmptyDict
  /\ md = <<>>

Init ==
  \/ \E text \in TemplateTexts(KeyLines), ud \in KeyUserData : InitWith(text, ud)
  \/ \E text \in TemplateTexts(TextLines), ud \in TextUserData : InitWith(text, ud)

InitFill ==
  \E text \in TemplateTexts(TextLines), ud \in FillUserData : InitWith(text, ud)

\* fields = extract_fields(template_lines)
ExtractFields ==
  /\ pc = "start"
  /\ fields' = extract_fields(template_lines)
  /\ pc' = "fields"
  /\ UNCHANGED <<template_lines, user_data, normalized, resp, data, md>>

\* fill_brief: if not fields: raise HTTPException(400)
NoFields ==
  /\ pc = "fields"
  /\ fields = <<>>
  /\ pc' = "error400"
  /\ UNCHANGED <<template_lines, fields, user_data, normalized, resp, data, md>>

\* normalized = normalize_user_data_to_keys(user_data, expected_keys)
Normalize ==
  /\ pc = "fields"
  /\ normalized' = normalize_user_data_to_keys(user_data, KeysList(fields))
  /\ pc' = "normalized"
  /\ UNCHANGED <<template_lines, fields, user_data, resp, data, md>>

\* fill_brief reaches the normalisation only with at least one field
FillNormalize == fields # <<>> /\ Normalize

\* data = call_model_to_get_json(fields, normalized, web_ctx)
CallModel ==
  /\ pc = "normalized"
  /\ \E outcome \in ModelOutcomes(Range(KeysList(fields))) :
       /\ resp' = outcome
       /\ data' = call_model_to_get_json(fields, outcome)
  /\ pc' = "model"
  /\ UNCHANGED <<template_lines, fields, user_data, normalized, md>>

\* md = assemble_markdown(template_lines, fields, data)
Assemble ==
  /\ pc = "model"
  /\ md' = assemble_markdown(template_lines, fields, data)
  /\ pc' = "done"
  /\ UNCHANGED <<template_lines, fields, user_data, normalized, resp, data>>

\* assemble_markdown applied to the reconciled mapping itself
AssembleReconciled ==
  /\ pc = "normalized"
  /\ md' = assemble_markdown(template_lines, fields, normalized)
  /\ pc' = "done"
  /\ UNCHANGED <<template_lines, fields, user_data, normalized, resp, data>>

Next == ExtractFields \/ Normalize \/ AssembleReconciled

Spec == Init /\ [][Next]_vars

NextFill == ExtractFields \/ NoFields \/ FillNormalize \/ CallModel \/ Assemble

SpecFill == InitFill /\ [][NextFill]_vars

(***************************************************************************)
(* Properties.                                                             *)
(***************************************************************************)
Keys == Range(KeysList(fields))

IsLabelLine(ln) == LABEL_RE(ln) # <<>>

\* str.split("\n")
RECURSIVE SplitNl(_)
SplitNl(text) ==
  IF \E i \in 1..Len(text) : text[i] = "\n"
  THEN LET i == CHOOSE i \in 1..Len(text) :
                  text[i] = "\n" /\ \A j \in 1..(i - 1) : text[j] # "\n"
       IN <<SubSeq(text, 1, i - 1)>> \o SplitNl(SubSeq(text, i + 1, Len(text)))
  ELSE <<text>>

OutputLines == SplitNl(md)

\* the line up to and including its last colon
UpToLastColon(ln) ==
  LET cs == {i \in 1..Len(ln) : ln[i] = ":"}
  IN SubSeq(ln, 1, CHOOSE i \in cs : \A j \in cs : j <= i)

EndsWithOneNewline(text) ==
  /\ Len(text) >= 1
  /\ text[Len(text)] = "\n"
  /\ Len(text) >= 2 => text[Len(text) - 1] # "\n"

EndsWithTwoNewlines(text) ==
  /\ Len(text) >= 2
  /\ text[Len(text)] = "\n"
  /\ text[Len(text) - 1] = "\n"

RawClienteMarca == <<"C","l","i","e","n","t","e","/","M","a","r","c","a">>

SlugClienteMarca == <<"c","l","i","e","n","t","e","_","m","a","r","c","a">>

AcmeInput == Dict(<<<<KeyClienteMarca, Str(Acme)>>>>)

\* C1: once the caller's mapping is reconciled, the keys of the result are
\* exactly the keys of the template: none is missing and none is added.
ClosedKeySet ==
  pc \in {"normalized", "done"} => DOMAIN normalized = Keys

\* C1 witness: a mapping with a key that matches no template key was reconciled
ClosedKeySetWitness ==
  /\ pc = "normalized"
  /\ Len(fields) = 2
  /\ \E n \in 1..Len(Items(user_data)) :
       LET sl == slugify(Items(user_data)[n][1])
       IN sl \notin Keys /\ get_close_matches(sl, KeysList(fields)) = <<>>
  /\ \E n \in 1..Len(Items(user_data)) :
       LET sl == slugify(Items(user_data)[n][1])
       IN sl \notin Keys /\ get_close_matches(sl, KeysList(fields)) # <<>>

\* C2 (as claimed): in the assembled text every line of the template that is
\* not a label line stands unchanged at the same line position.
UntouchedLinesKeepPosition ==
  pc = "done" =>
    \A i \in 1..Len(template_lines) :
      ~IsLabelLine(template_lines[i]) =>
        i <= Len(OutputLines) /\ OutputLines[i] = template_lines[i]

\* C3: with an empty caller mapping, every label line of the assembled
\* document is the line up to its last colon followed by " Sin datos", every
\* other line is the template's, and there is no further line.
SentinelCompleteness ==
  (pc = "done" /\ Items(user_data) = <<>>) =>
    /\ md = Cat([i \in 1..Len(template_lines) |->
                   (IF IsLabelLine(template_lines[i])
                    THEN UpToLastColon(template_lines[i]) \o <<" ">> \o SENTINEL
                    ELSE template_lines[i]) \o <<"\n">>])
            \o (IF template_lines = <<>> THEN <<"\n">> ELSE <<>>)
    /\ template_lines = <<LineSitioWeb>> => md = <<"S","i","t","i","o"," ","w","e","b",":"," ","S","i","n"," ","d","a","t","o","s">> \o <<"\n">>

\* C3 witness: 'Sitio web:' assembled from the empty mapping, next to a plain line
SentinelCompletenessWitness ==
  /\ pc = "done"
  /\ user_data = Dict(<<>>)
  /\ template_lines = <<LineHeading, LineSitioWeb>>

\* C4 (as claimed): '- **Cliente/Marca:**' is detected with raw label
\* 'Cliente/Marca' and key 'cliente_marca', the input "Cliente / Marca" is
\* reconciled to it and the assembled line is '- **Cliente/Marca:** Acme'.
ColonInsideBoldIsField ==
  (pc = "done" /\ template_lines = <<LineColonInBold>> /\ user_data = AcmeInput) =>
    /\ fields = <<[line_idx |-> 0, raw_label |-> RawClienteMarca,
                   key |-> SlugClienteMarca]>>
    /\ normalized = [k \in {SlugClienteMarca} |-> Str(Acme)]
    /\ md = LineColonInBold \o <<" ">> \o Acme \o <<"\n">>

\* C4 (amended): '- **Cliente/Marca**:' (bold closed before the colon) is
\* detected with raw label 'Cliente/Marca' and key 'cliente_marca', the input
\* "Cliente / Marca" is reconciled to it and the assembled line is
\* '- **Cliente/Marca**: Acme'; '- **Cliente/Marca:**' is not a field and is
\* left as it is.
BoldBeforeColonIsField ==
  /\ (pc = "done" /\ template_lines = <<LineBoldThenColon>> /\ user_data = AcmeInput) =>
       /\ fields = <<[line_idx |-> 0, raw_label |-> RawClienteMarca,
                      key |-> SlugClienteMarca]>>
       /\ normalized = [k \in {SlugClienteMarca} |-> Str(Acme)]
       /\ md = LineBoldThenColon \o <<" ">> \o Acme \o <<"\n">>
  /\ (pc = "done" /\ template_lines = <<LineColonInBold>> /\ user_data = AcmeInput) =>
       /\ fields = <<>>
       /\ normalized = EmptyDict
       /\ md = LineColonInBold \o <<"\n">>

\* C4 witness: the bold-before-colon line assembled with the caller's value
BoldBeforeColonWitness ==
  /\ pc = "done"
  /\ template_lines = <<LineBoldThenColon>>
  /\ user_data = AcmeInput

\* C5 (as claimed): the assembled text ends with exactly one newline, also when
\* the last template line is empty and when there are no lines.
ExactlyOneTrailingNewline ==
  pc = "done" => EndsWithOneNewline(md)

\* C5 (amended): the assembled text is the lines, each followed by one newline
\* (a lone newline when there are no lines); it ends with exactly one newline
\* unless the template has at least two lines and the last one is empty, and
\* then it ends with two.
OneNewlineAfterEachLine ==
  pc = "done" =>
    /\ Len(OutputLines) = (IF template_lines = <<>> THEN 1 ELSE Len(template_lines)) + 1
    /\ OutputLines[Len(OutputLines)] = <<>>
    /\ \A i \in 1..Len(template_lines) :
         IF IsLabelLine(template_lines[i])
         THEN /\ Len(OutputLines[i]) > Len(UpToLastColon(template_lines[i])) + 1
              /\ SubSeq(OutputLines[i], 1, Len(UpToLastColon(template_lines[i])) + 1)
                   = UpToLastColon(template_lines[i]) \o <<" ">>
         ELSE OutputLines[i] = template_lines[i]
    /\ IF Len(template_lines) >= 2 /\ template_lines[Len(template_lines)] = <<>>
       THEN EndsWithTwoNewlines(md)
       ELSE EndsWithOneNewline(md)

\* C5 witness: a document assembled from a template whose last line is empty
OneNewlineAfterEachLineWitness ==
  /\ pc = "done"
  /\ template_lines = <<LineSitioWeb, <<>>>>
  /\ EndsWithTwoNewlines(md)

\* C6 (as claimed): every detected field has a non-empty raw label, and a line
\* made of whitespace or a bullet followed by a colon produces no field.
RawLabelNonEmpty ==
  pc # "start" =>
    /\ \A n \in 1..Len(fields) : fields[n].raw_label # <<>>
    /\ \A i \in 1..Len(template_lines) :
         template_lines[i] \in {<<":">>, LineBlankLabel, LineBulletOnly} =>
           \A n \in 1..Len(fields) : fields[n].line_idx # i - 1

\* C7 (as claimed): a value assigned by an exact match is not overwritten by a
\* later caller key that matches only fuzzily: when no caller key after the
\* n-th has an exact match, the key the n-th matched exactly keeps its value.
AssignedNotOverwrittenByFuzzy ==
  pc = "normalized" =>
    LET items == Items(user_data)
    IN \A n \in 1..Len(items) :
         (/\ slugify(items[n][1]) \in Keys
          /\ \A j \in (n + 1)..Len(items) : slugify(items[j][1]) \notin Keys)
         => normalized[slugify(items[n][1])] = items[n][2]

BestRatioKeys(sl) ==
  {k \in Keys : /\ 10 * ratio(k, sl)[1] >= 8 * ratio(k, sl)[2]
                /\ \A o \in Keys : ~RatioLess(ratio(k, sl), ratio(o, sl))}

\* C8 (as claimed): a single caller key without exact match whose best ratio
\* (at least 0.8) is shared by several template keys is assigned to the first
\* of them in template order, and to no other key.
TieGoesToFirstEnumerated ==
  (pc = "normalized" /\ Len(Items(user_data)) = 1) =>
    LET item  == Items(user_data)[1]
        sl    == slugify(item[1])
        tied  == BestRatioKeys(sl)
        order == KeysList(fields)
        first == order[CHOOSE i \in 1..Len(order) :
                         order[i] \in tied /\ \A j \in 1..(i - 1) : order[j] \notin tied]
    IN (sl \notin Keys /\ Cardinality(tied) >= 2) =>
         /\ normalized[first] = item[2]
         /\ \A k \in Keys \ {first} : normalized[k] = Str(SENTINEL)

\* the reconciled mapping after the first n caller entries
ReconciledAfter(n) ==
  IF n = Len(Items(user_data)) THEN normalized
  ELSE normalize_user_data_to_keys(Dict(SubSeq(Items(user_data), 1, n)), KeysList(fields))

\* C9: a caller key whose slug is no template key changes the mapping exactly
\* when its best ratio is at least 0.8, and then only at a best-matching key,
\* which receives its value; below 0.8 the mapping is left as it was.
FuzzyThresholdBoundary ==
  pc = "normalized" =>
    \A n \in 1..Len(Items(user_data)) :
      LET item   == Items(user_data)[n]
          sl     == slugify(item[1])
          before == ReconciledAfter(n - 1)
          after  == ReconciledAfter(n)
      IN sl \notin Keys =>
           IF BestRatioKeys(sl) # {}
           THEN \E k \in BestRatioKeys(sl) : after = [before EXCEPT ![k] = item[2]]
           ELSE after = before

\* C9 witness: "ab" against the key "abc" has ratio 4/5 and was assigned
FuzzyThresholdWitness ==
  /\ pc = "normalized"
  /\ KeysList(fields) = <<<<"a","b","c">>>>
  /\ user_data = Dict(<<<<<<"a","b">>, Str(<<"x">>)>>>>)
  /\ ratio(<<"a","b","c">>, <<"a","b">>) = <<4, 5>>
  /\ normalized[<<"a","b","c">>] = Str(<<"x">>)

\* C10: whatever the model call does, the mapping handed to the assembly has
\* exactly the template's keys; each value is the sentinel or the trimmed
\* string the model supplied for that key; when the call does not yield an
\* object every value is the sentinel.
ModelOutcomeResolved ==
  pc \in {"model", "done"} =>
    /\ DOMAIN data = Keys
    /\ \A k \in Keys :
         /\ data[k].t = "str"
         /\ \/ data[k].s = SENTINEL
            \/ /\ resp.kind = "object"
               /\ k \in DOMAIN resp.d
               /\ resp.d[k].t = "str"
               /\ data[k].s = Strip(resp.d[k].s)
         /\ resp.kind # "object" => data[k].s = SENTINEL

\* C10 witness: the model call raised and the document was assembled
ModelOutcomeResolvedWitness ==
  /\ pc = "done"
  /\ resp.kind = "raise"
  /\ Len(fields) = 2

====
